---- MODULE Spec2Model ----
(***************************************************************************)
(* Model of src/server.js: the POST /api/submit workflow (validate, upload *)
(* each image, insert one row, send up to two emails, respond) and the     *)
(* GET /admin/submissions listing.                                         *)
(*                                                                         *)
(* JavaScript strings are sequences of one-character strings, so that      *)
(* trim, split, JSON.stringify and JSON.parse are computed, not assumed.   *)
(* A request runs atomically between two awaits (Node's event loop), so    *)
(* there is one action per arrival and one per awaited promise settling.   *)
(***************************************************************************)
EXTENDS Naturals, Integers, Sequences, FiniteSets, TLC

\* ------------------------------------------------------------------ bounds
\* Request slots of the concurrent specification (Spec).
MaxReq == 2
\* Largest number of attached files of a request under Spec.
MaxFiles == 2

\* upload.array('images', 6): multer's limit on the files of one request.
FileLimit == 6

Reqs == 1..MaxReq

\* ----------------------------------------------------------------- strings
\* A form field that the request body does not carry (JavaScript undefined).
Undefined == <<"undefined">>
\* A column holding SQL NULL.
Null == <<"null">>

\* JavaScript truthiness of a form field: undefined and '' are falsy.
Truthy(v) == v # Undefined /\ v # Null /\ v # <<>>

\* v || d
OrElse(v, d) == IF Truthy(v) THEN v ELSE d

\* The characters String.prototype.trim strips.
WhiteSpace == {" ", "\n", "\t", "\r", "\f"}

RECURSIVE TrimStart(_)
TrimStart(s) ==
  IF s # <<>> /\ Head(s) \in WhiteSpace THEN TrimStart(Tail(s)) ELSE s

RECURSIVE TrimEnd(_)
TrimEnd(s) ==
  IF s # <<>> /\ s[Len(s)] \in WhiteSpace
    THEN TrimEnd(SubSeq(s, 1, Len(s) - 1))
    ELSE s

\* s.trim()
Trim(s) == TrimEnd(TrimStart(s))

\* s.split('\n'): the pieces between the newlines; '' gives [''].
RECURSIVE SplitFrom(_, _)
SplitFrom(s, cur) ==
  IF s = <<>> THEN <<cur>>
  ELSE IF Head(s) = "\n" THEN <<cur>> \o SplitFrom(Tail(s), <<>>)
  ELSE SplitFrom(Tail(s), Append(cur, Head(s)))

SplitLines(s) == SplitFrom(s, <<>>)

\* Mutant: the lines are kept as split, untrimmed.
MapTrim_Untrimmed(arr) == arr

\* arr.map(s => s.trim())
MapTrim(arr) == [i \in 1..Len(arr) |-> Trim(arr[i])]

\* arr.filter(Boolean): the non-empty strings, in order.
RECURSIVE FilterBoolean(_)
FilterBoolean(arr) ==
  IF arr = <<>> THEN <<>>
  ELSE IF Head(arr) # <<>> THEN <<Head(arr)>> \o FilterBoolean(Tail(arr))
  ELSE FilterBoolean(Tail(arr))

\* (links || '').split('\n').map(s => s.trim()).filter(Boolean)
ParseLinks(links) == FilterBoolean(MapTrim(SplitLines(OrElse(links, <<>>))))

\* ------------------------------------------------------------------- JSON
\* The two-character escapes JSON.stringify writes, as escape letter -> character.
EscapeLetters == {"\"", "\\", "n", "t", "r", "f"}

Unescape(c) ==
  CASE c = "n" -> "\n"
    [] c = "t" -> "\t"
    [] c = "r" -> "\r"
    [] c = "f" -> "\f"
    [] OTHER -> c

\* Mutant: no character is escaped.
EscapeChar_Raw(c) == <<c>>

\* One character of a string as JSON.stringify writes it inside the quotes.
EscapeChar(c) ==
  CASE c = "\"" -> <<"\\", "\"">>
    [] c = "\\" -> <<"\\", "\\">>
    [] c = "\n" -> <<"\\", "n">>
    [] c = "\t" -> <<"\\", "t">>
    [] c = "\r" -> <<"\\", "r">>
    [] c = "\f" -> <<"\\", "f">>
    [] OTHER -> <<c>>

RECURSIVE EscapeString(_)
EscapeString(s) ==
  IF s = <<>> THEN <<>> ELSE EscapeChar(Head(s)) \o EscapeString(Tail(s))

\* JSON.stringify of one string.
QuoteString(s) == <<"\"">> \o EscapeString(s) \o <<"\"">>

RECURSIVE JoinQuoted(_)
JoinQuoted(arr) ==
  IF arr = <<>> THEN <<>>
  ELSE IF Len(arr) = 1 THEN QuoteString(arr[1])
  ELSE QuoteString(arr[1]) \o <<",">> \o JoinQuoted(Tail(arr))

\* JSON.stringify of an array of strings.
JSONStringify(arr) == <<"[">> \o JoinQuoted(arr) \o <<"]">>

\* JSON.parse, as a recursive-descent parser of strings, arrays and the three
\* literals. A parse step gives [ok, val, rest]; a value is [k, v] with k one of
\* "str", "arr", "lit". Numbers, objects, \b and \uXXXX escapes are left out:
\* no text of the model holds a digit, a brace or such an escape.
JsonWs == {" ", "\n", "\t", "\r"}
ControlChars == {"\n", "\t", "\r", "\f"}
Literals == {<<"n", "u", "l", "l">>, <<"t", "r", "u", "e">>, <<"f", "a", "l", "s", "e">>}

ParseFail == [ok |-> FALSE, val |-> [k |-> "err", v |-> <<>>], rest |-> <<>>]
ParseOk(kind, v, rest) == [ok |-> TRUE, val |-> [k |-> kind, v |-> v], rest |-> rest]

RECURSIVE SkipWs(_)
SkipWs(s) == IF s # <<>> /\ Head(s) \in JsonWs THEN SkipWs(Tail(s)) ELSE s

HasPrefix(s, p) == Len(s) >= Len(p) /\ SubSeq(s, 1, Len(p)) = p

\* The characters after an opening quote, up to the closing one.
RECURSIVE ParseStringBody(_, _)
ParseStringBody(s, acc) ==
  IF s = <<>> THEN ParseFail
  ELSE IF Head(s) = "\"" THEN ParseOk("str", acc, Tail(s))
  ELSE IF Head(s) \in ControlChars THEN ParseFail
  ELSE IF Head(s) = "\\"
    THEN IF Len(s) >= 2 /\ (s[2] \in EscapeLetters \/ s[2] = "/")
           THEN ParseStringBody(SubSeq(s, 3, Len(s)), Append(acc, Unescape(s[2])))
           ELSE ParseFail
  ELSE ParseStringBody(Tail(s), Append(acc, Head(s)))

RECURSIVE ParseValue(_)
RECURSIVE ParseElements(_, _)
\* The elements after '[' (white space skipped), acc the values read so far.
ParseElements(s, acc) ==
  LET e == ParseValue(s)
      t == SkipWs(e.rest)
  IN  IF ~e.ok \/ t = <<>> THEN ParseFail
      ELSE IF Head(t) = "]" THEN ParseOk("arr", Append(acc, e.val), Tail(t))
      ELSE IF Head(t) = "," THEN ParseElements(Tail(t), Append(acc, e.val))
      ELSE ParseFail

ParseValue(s0) ==
  LET s == SkipWs(s0)
  IN  IF s = <<>> THEN ParseFail
      ELSE IF Head(s) = "\"" THEN ParseStringBody(Tail(s), <<>>)
      ELSE IF Head(s) = "["
        THEN LET t == SkipWs(Tail(s))
             IN  IF t # <<>> /\ Head(t) = "]"
                   THEN ParseOk("arr", <<>>, Tail(t))
                   ELSE ParseElements(t, <<>>)
      ELSE IF \E w \in Literals : HasPrefix(s, w)
        THEN LET w == CHOOSE x \in Literals : HasPrefix(s, x)
             IN  ParseOk("lit", w, SubSeq(s, Len(w) + 1, Len(s)))
      ELSE ParseFail

\* JSON.parse(text): [ok |-> TRUE, val |-> value], or ok = FALSE for the
\* SyntaxError it throws.
JSONParse(text) ==
  LET r == ParseValue(text)
  IN  IF r.ok /\ SkipWs(r.rest) = <<>> THEN [ok |-> TRUE, val |-> r.val]
      ELSE [ok |-> FALSE, val |-> ParseFail.val]

\* The value JSON.parse gives for an array of strings.
ArrayOfStrings(arr) ==
  [k |-> "arr", v |-> [i \in 1..Len(arr) |-> [k |-> "str", v |-> arr[i]]]]

\* ------------------------------------------------------------------ state
VARIABLES
  reqs,         \* request slot -> the handler's locals and what it has done
  db,           \* the rows of table submissions, in insertion order
  remote,       \* the assets held by the media service, by URL
  outbox,       \* the mails the relay has accepted
  transporter,  \* whether SMTP_HOST was set at process start
  adminRes      \* the response of GET /admin/submissions, when it was the last step

vars == <<reqs, db, remote, outbox, transporter, adminRes>>

Chr == <<"a", "b", "c", "d", "e", "f", "g", "h">>

\* result.secure_url of the i-th upload of request r: the service names every
\* asset it stores differently.
Url(r, i) == <<"u", Chr[r], Chr[i]>>

NoResponse == [status |-> 0]

Idle ==
  [pc |-> "idle", entered |-> FALSE,
   name |-> Undefined, contact |-> Undefined, email |-> Undefined,
   links |-> Undefined, nfiles |-> 0,
   linksArray |-> <<>>, uploadedUrls |-> <<>>,
   uploadCalls |-> 0, insertCalls |-> 0, mailCalls |-> 0, rowId |-> 0,
   res |-> <<>>]

\* res.json({ success: true })
Success == [status |-> 200, body |-> [success |-> TRUE]]
\* res.status(400).json({ error: 'Name and contact are required.' })
ValidationFailure ==
  [status |-> 400, body |-> [error |-> "Name and contact are required."]]
\* res.status(500).json({ error: 'Server error', details: err.message })
ServerError(message) ==
  [status |-> 500, body |-> [error |-> "Server error", details |-> message]]
\* Express's own error handler, for an error thrown outside the handler's try.
ExpressError(message) == [status |-> 500, body |-> [html |-> message]]

\* Mutant: the response is written twice.
Respond_Twice(rec, x) == [rec EXCEPT !.pc = "done", !.res = @ \o <<x, x>>]

\* The handler ends with response x.
Respond(rec, x) == [rec EXCEPT !.pc = "done", !.res = Append(@, x)]

\* catch (err): the error is logged and answered with a 500.
Caught(rec, message) == Respond(rec, ServerError(message))

\* Mutant: the catch block deletes the row the request inserted.
RowsAfterCatch_Rollback(rec, rows) ==
  SelectSeq(rows, LAMBDA row : row.id # rec.rowId)

\* The table after the catch block: it rolls nothing back.
RowsAfterCatch(rec, rows) == rows

\* Mutant: the catch block destroys the assets the request uploaded.
AssetsAfterCatch_Destroy(rec, assets) ==
  assets \ {rec.uploadedUrls[i] : i \in 1..Len(rec.uploadedUrls)}

\* The media service's assets after the catch block: it destroys nothing.
AssetsAfterCatch(rec, assets) == assets

\* if (!name || !contact)
Rejected(name, contact) == ~Truthy(name) \/ ~Truthy(contact)

\* AUTOINCREMENT: one more than the largest id the table has held (no row is
\* ever deleted).
RECURSIVE MaxId(_)
MaxId(rows) ==
  IF rows = <<>> THEN 0
  ELSE LET m == MaxId(Tail(rows))
       IN  IF Head(rows).id > m THEN Head(rows).id ELSE m

\* Mutant: uploadedUrls is one array of the module, here the first request's,
\* and not a local of each call of the handler.
NewRow_SharedUrls(rec, now) ==
  [id |-> MaxId(db) + 1,
   name |-> rec.name, contact |-> rec.contact,
   email |-> OrElse(rec.email, <<>>),
   product_links |-> JSONStringify(rec.linksArray),
   image_urls |-> JSONStringify(reqs[1].uploadedUrls),
   created_at |-> now,
   status |-> "pending"]

\* Mutant: the email column takes the field as it came, without || ''.
NewRow_RawEmail(rec, now) ==
  [id |-> MaxId(db) + 1,
   name |-> rec.name, contact |-> rec.contact,
   email |-> rec.email,
   product_links |-> JSONStringify(rec.linksArray),
   image_urls |-> JSONStringify(rec.uploadedUrls),
   created_at |-> now,
   status |-> "pending"]

\* The row insert.run writes: email || '', both arrays as JSON text, created_at
\* and status from the column defaults.
NewRow(rec, now) ==
  [id |-> MaxId(db) + 1,
   name |-> rec.name, contact |-> rec.contact,
   email |-> OrElse(rec.email, <<>>),
   product_links |-> JSONStringify(rec.linksArray),
   image_urls |-> JSONStringify(rec.uploadedUrls),
   created_at |-> now,
   status |-> "pending"]

\* Mutant: the customer mail is sent first, in place of the internal one.
AfterInsert_CustomerFirst(rec) ==
  IF transporter
    THEN [rec EXCEPT !.pc = "mailCustomer", !.mailCalls = @ + 1]
    ELSE Respond(rec, Success)

\* What follows a successful insert: the first sendMail when a transporter
\* exists, the success response otherwise.
AfterInsert(rec) ==
  IF transporter
    THEN [rec EXCEPT !.pc = "mailInternal", !.mailCalls = @ + 1]
    ELSE Respond(rec, Success)

\* Mutant: the error of insert.run is swallowed and the handler goes on.
InsertFailed_Swallowed(rec) == AfterInsert(rec)

\* insert.run throws: control leaves the try for the catch block.
InsertFailed(rec) == Caught(rec, "insert failed")

\* CURRENT_TIMESTAMP at an insert, in whole seconds: the second of the newest
\* row or a later one (time is told only by the rows' created_at).
CurrentTimestamps ==
  IF db = <<>> THEN {0}
  ELSE {db[Len(db)].created_at, db[Len(db)].created_at + 1}

\* Lines 99-136 up to the first await: insert.run, which throws on a storage
\* fault, then the branch on transporter. assets are the media service's assets
\* as the step starts.
Persist(r, rec, assets) ==
  \E ok \in BOOLEAN :
    LET called == [rec EXCEPT !.insertCalls = @ + 1]
    IN  IF ok
          THEN /\ \E now \in CurrentTimestamps :
                    db' = Append(db, NewRow(called, now))
               /\ remote' = assets
               /\ reqs' = [reqs EXCEPT ![r] =
                             AfterInsert([called EXCEPT !.rowId = MaxId(db) + 1])]
          ELSE /\ db' = RowsAfterCatch(called, db)
               /\ remote' = AssetsAfterCatch(called, assets)
               /\ reqs' = [reqs EXCEPT ![r] = InsertFailed(called)]

\* Mutant: the loop stops one file early.
MoreFiles_SkipLast(rec, i) == i < rec.nfiles - 1

\* Whether the upload loop has another file after i uploads.
MoreFiles(rec, i) == i < rec.nfiles

\* Mutant: every file's upload is called at once, as Promise.all would.
StartUpload_AllAtOnce(rec) == [rec EXCEPT !.pc = "upload", !.uploadCalls = rec.nfiles]

\* for (const file of files): the call of uploadBufferToCloudinary for the
\* next file, where the handler awaits.
StartUpload(rec) == [rec EXCEPT !.pc = "upload", !.uploadCalls = @ + 1]

\* Mutant: unshift instead of push.
PushUrl_Unshift(urls, url) == <<url>> \o urls

\* uploadedUrls.push(url)
PushUrl(urls, url) == Append(urls, url)

\* Mutant: no limit on the number of files.
TooManyFiles_Never(nfiles) == FALSE

\* multer: upload.array('images', 6) fails the request before the handler.
TooManyFiles(nfiles) == nfiles > FileLimit

\* A request arrives: multer, then the handler up to its first await.
Arrive(r, name, contact, email, links, nfiles) ==
  /\ reqs[r].pc = "idle"
  /\ r > 1 => reqs[r - 1].pc # "idle"
  /\ adminRes' = NoResponse
  /\ UNCHANGED <<outbox, transporter>>
  /\ LET rec == [Idle EXCEPT !.name = name, !.contact = contact, !.email = email,
                             !.links = links, !.nfiles = nfiles]
     IN  IF TooManyFiles(nfiles)
           THEN /\ reqs' = [reqs EXCEPT ![r] =
                              Respond(rec, ExpressError("Unexpected field"))]
                /\ UNCHANGED <<db, remote>>
         ELSE IF Rejected(name, contact)
           THEN /\ reqs' = [reqs EXCEPT ![r] =
                              Respond([rec EXCEPT !.entered = TRUE], ValidationFailure)]
                /\ UNCHANGED <<db, remote>>
         ELSE LET run == [rec EXCEPT !.entered = TRUE,
                                     !.linksArray = ParseLinks(links)]
              IN  IF MoreFiles(run, 0)
                    THEN /\ reqs' = [reqs EXCEPT ![r] = StartUpload(run)]
                         /\ UNCHANGED <<db, remote>>
                    ELSE Persist(r, run, remote)

\* The awaited upload settles: resolve(result.secure_url) or reject(error).
UploadSettles(r) ==
  /\ reqs[r].pc = "upload"
  /\ adminRes' = NoResponse
  /\ UNCHANGED <<outbox, transporter>>
  /\ \E ok \in BOOLEAN :
       IF ok
         THEN LET i == Len(reqs[r].uploadedUrls) + 1
                  rec == [reqs[r] EXCEPT !.uploadedUrls = PushUrl(@, Url(r, i))]
              IN  IF MoreFiles(rec, i)
                    THEN /\ reqs' = [reqs EXCEPT ![r] = StartUpload(rec)]
                         /\ remote' = remote \cup {Url(r, i)}
                         /\ db' = db
                    ELSE Persist(r, rec, remote \cup {Url(r, i)})
         ELSE /\ reqs' = [reqs EXCEPT ![r] = Caught(reqs[r], "upload failed")]
              /\ db' = RowsAfterCatch(reqs[r], db)
              /\ remote' = AssetsAfterCatch(reqs[r], remote)

\* Mutant: the customer mail is never sent.
WantsCustomerMail_Never(rec) == FALSE

\* Mutant: the customer mail is sent whether or not an email was given.
WantsCustomerMail_Always(rec) == TRUE

\* if (email): whether the customer mail follows the internal one.
WantsCustomerMail(rec) == Truthy(rec.email)

\* The awaited internal sendMail settles.
InternalMailSettles(r) ==
  /\ reqs[r].pc = "mailInternal"
  /\ adminRes' = NoResponse
  /\ UNCHANGED transporter
  /\ \E ok \in BOOLEAN :
       IF ok
         THEN /\ outbox' = outbox \cup {[req |-> r, kind |-> "internal"]}
              /\ reqs' = [reqs EXCEPT ![r] =
                   IF WantsCustomerMail(reqs[r])
                     THEN [reqs[r] EXCEPT !.pc = "mailCustomer", !.mailCalls = @ + 1]
                     ELSE Respond(reqs[r], Success)]
              /\ UNCHANGED <<db, remote>>
         ELSE /\ outbox' = outbox
              /\ reqs' = [reqs EXCEPT ![r] = Caught(reqs[r], "mail failed")]
              /\ db' = RowsAfterCatch(reqs[r], db)
              /\ remote' = AssetsAfterCatch(reqs[r], remote)

\* The awaited customer sendMail settles.
CustomerMailSettles(r) ==
  /\ reqs[r].pc = "mailCustomer"
  /\ adminRes' = NoResponse
  /\ UNCHANGED transporter
  /\ \E ok \in BOOLEAN :
       IF ok
         THEN /\ outbox' = outbox \cup {[req |-> r, kind |-> "customer"]}
              /\ reqs' = [reqs EXCEPT ![r] = Respond(reqs[r], Success)]
              /\ UNCHANGED <<db, remote>>
         ELSE /\ outbox' = outbox
              /\ reqs' = [reqs EXCEPT ![r] = Caught(reqs[r], "mail failed")]
              /\ db' = RowsAfterCatch(reqs[r], db)
              /\ remote' = AssetsAfterCatch(reqs[r], remote)

\* ---------------------------------------------------------- admin listing
\* The orders SELECT ... ORDER BY created_at DESC may return the rows in: SQL
\* leaves the order of rows with equal created_at open.
Orders ==
  LET n == Len(db)
  IN  {p \in [1..n -> 1..n] :
         /\ \A i, j \in 1..n : i # j => p[i] # p[j]
         /\ \A i, j \in 1..n : i < j => db[p[i]].created_at >= db[p[j]].created_at}

\* JSON.parse(text || '[]')
ParseColumn(text) == JSONParse(OrElse(text, <<"[", "]">>))

\* rows.map(r => ({...r, product_links: ..., image_urls: ...}))
ParsedRow(row) ==
  [row EXCEPT !.product_links = ParseColumn(row.product_links).val,
              !.image_urls = ParseColumn(row.image_urls).val]

\* Whether the map callback throws on this row.
RowThrows(row) ==
  ~ParseColumn(row.product_links).ok \/ ~ParseColumn(row.image_urls).ok

\* GET /admin/submissions. The handler has no try: a SyntaxError of JSON.parse
\* goes to Express's error handler.
AdminList ==
  /\ UNCHANGED <<reqs, db, remote, outbox, transporter>>
  /\ \E p \in Orders :
       adminRes' =
         IF \E i \in 1..Len(db) : RowThrows(db[i])
           THEN ExpressError("SyntaxError")
           ELSE [status |-> 200,
                 body |-> [i \in 1..Len(db) |-> ParsedRow(db[p[i]])]]

\* ----------------------------------------------------------------- inputs
\* Form fields of the requests of Spec, which attach no file or MaxFiles files.
Names == {<<"n">>}
Contacts == {<<"c">>}
Emails == {<<"e">>}
LinkTexts == {<<"x", "\n", " ", "\n", "y">>}
FileCounts == {0, MaxFiles}

\* Form fields of the single request of SpecOne.
WideFields == {Undefined, <<>>, <<" ">>, <<"a">>}
WideEmails == {Undefined, <<>>, <<"e">>}
WideLinkTexts ==
  {Undefined, <<>>,
   <<"x", "\n", "\n", "y", "\n", " ", " ", "\n">>,
   <<" ", "\"", "\\", " ">>}

\* Column texts of rows the database file held before the process started.
LegacyRows == 1
LegacyTexts ==
  {Null, <<>>, <<"[", "\"", "x", "\"", "]">>, <<"[">>, <<"x">>}

LegacyRow(i, links, images) ==
  [id |-> i, name |-> <<"o">>, contact |-> <<"c">>, email |-> <<>>,
   product_links |-> links, image_urls |-> images,
   created_at |-> 0, status |-> "pending"]

\* Every links text of up to MaxLinkLen characters over a letter, a space, a
\* newline and the two characters JSON.stringify escapes, and no links field.
MaxLinkLen == 3
LinkChars == {"a", " ", "\n", "\"", "\\"}
AllLinkTexts ==
  {Undefined} \cup UNION {[1..k -> LinkChars] : k \in 0..MaxLinkLen}

\* Fields that tell the requests apart: each client sends its own name,
\* contact and links.
NameOf(r) == <<"n", Chr[r]>>
ContactOf(r) == <<"c", Chr[r]>>
LinksOf(r) == <<"l", Chr[r], "\n", " ", "m", Chr[r]>>

\* --------------------------------------------------------- specifications
InitWith(rows) ==
  /\ reqs = [r \in Reqs |-> Idle]
  /\ db = rows
  /\ remote = {}
  /\ outbox = {}
  /\ transporter \in BOOLEAN
  /\ adminRes = NoResponse

\* A fresh database file: CREATE TABLE IF NOT EXISTS on an empty file.
Init == InitWith(<<>>)

\* A database file with rows from before the process started.
InitLegacy ==
  \E n \in 1..LegacyRows :
    \E ls, is \in [1..n -> LegacyTexts] :
      InitWith([i \in 1..n |-> LegacyRow(i, ls[i], is[i])])

\* Concurrent requests.
Next ==
  \/ \E r \in Reqs, n \in Names, c \in Contacts, e \in Emails, l \in LinkTexts,
        k \in FileCounts : Arrive(r, n, c, e, l, k)
  \/ \E r \in Reqs : UploadSettles(r)
  \/ \E r \in Reqs : InternalMailSettles(r)
  \/ \E r \in Reqs : CustomerMailSettles(r)
  \/ AdminList

\* One request, with every shape of its fields and up to one file too many.
NextOne ==
  \/ \E n \in WideFields, c \in WideFields, e \in WideEmails, l \in WideLinkTexts,
        k \in 0..(FileLimit + 1) : Arrive(1, n, c, e, l, k)
  \/ UploadSettles(1)
  \/ InternalMailSettles(1)
  \/ CustomerMailSettles(1)
  \/ AdminList

\* One request of Spec's shapes, over a database that already holds rows.
NextLegacy ==
  \/ \E n \in Names, c \in Contacts, e \in Emails, l \in LinkTexts,
        k \in FileCounts : Arrive(1, n, c, e, l, k)
  \/ UploadSettles(1)
  \/ InternalMailSettles(1)
  \/ CustomerMailSettles(1)
  \/ AdminList

\* One request with every links text, with and without files.
NextLinks ==
  \/ \E n \in Names, c \in Contacts, l \in AllLinkTexts, k \in FileCounts :
        Arrive(1, n, c, Undefined, l, k)
  \/ UploadSettles(1)
  \/ InternalMailSettles(1)
  \/ AdminList

\* Concurrent requests, each with fields of its own.
NextTagged ==
  \/ \E r \in Reqs, e \in Emails, k \in FileCounts :
        Arrive(r, NameOf(r), ContactOf(r), e, LinksOf(r), k)
  \/ \E r \in Reqs : UploadSettles(r)
  \/ \E r \in Reqs : InternalMailSettles(r)
  \/ \E r \in Reqs : CustomerMailSettles(r)
  \/ AdminList

Spec == Init /\ [][Next]_vars
SpecOne == Init /\ [][NextOne]_vars
SpecLinks == Init /\ [][NextLinks]_vars
SpecTagged == Init /\ [][NextTagged]_vars
SpecLegacy == InitLegacy /\ [][NextLegacy]_vars

\* ----------------------------------------------------------------- claims
\* What a request has called and what came of it.
Sent(r, kind) == [req |-> r, kind |-> kind] \in outbox
MailsSent(r) == Cardinality({m \in outbox : m.req = r})
HasRow(r) == \E i \in 1..Len(db) : db[i].id = reqs[r].rowId
AllUploaded(r) ==
  /\ Len(reqs[r].uploadedUrls) = reqs[r].nfiles
  /\ reqs[r].uploadCalls = reqs[r].nfiles
  /\ \A i \in 1..reqs[r].nfiles : Url(r, i) \in remote
\* The handler ended on an upload that was called and gave no URL.
UploadFailed(r) ==
  reqs[r].pc = "done" /\ reqs[r].uploadCalls > Len(reqs[r].uploadedUrls)
\* insert.run was called and gave no row.
InsertThrew(r) == reqs[r].insertCalls > 0 /\ reqs[r].rowId = 0
\* The handler ended on a sendMail that was called and sent nothing.
MailFailed(r) == reqs[r].pc = "done" /\ reqs[r].mailCalls > MailsSent(r)
Answered(r, status) == \E i \in 1..Len(reqs[r].res) : reqs[r].res[i].status = status
IsServerError(x) == x.status = 500 /\ x.body.error = "Server error"
\* Missing, empty, or empty after trimming.
Blank(v) == v = Undefined \/ Trim(v) = <<>>
EmptyArray == ArrayOfStrings(<<>>)

\* C1: a request that reaches the handler with a name or contact that is
\* missing, empty or whitespace-only is answered with the 400 validation error
\* and calls neither the Uploader, the Store nor the Notifier.
C1_BlankFieldsRejected ==
  \A r \in Reqs :
    (reqs[r].entered /\ (Blank(reqs[r].name) \/ Blank(reqs[r].contact))) =>
      /\ reqs[r].res = <<ValidationFailure>>
      /\ reqs[r].uploadCalls = 0
      /\ reqs[r].insertCalls = 0
      /\ reqs[r].mailCalls = 0

\* C2: every row belongs to a request all of whose uploads have completed; a
\* request one of whose uploads failed never inserts and is answered with a 500.
C2_NoPartialWrite ==
  /\ \A i \in 1..Len(db) : \E r \in Reqs : reqs[r].rowId = db[i].id
  /\ \A r \in Reqs : HasRow(r) => AllUploaded(r)
  /\ \A r \in Reqs :
       UploadFailed(r) =>
         /\ ~HasRow(r)
         /\ reqs[r].insertCalls = 0
         /\ Len(reqs[r].res) = 1
         /\ reqs[r].res[1].status = 500

C2_Witness ==
  /\ \E r \in Reqs : HasRow(r) /\ reqs[r].nfiles = MaxFiles
  /\ \E r \in Reqs : UploadFailed(r) /\ Len(reqs[r].uploadedUrls) >= 1

\* C3: a request answered with success has all its uploads on the media
\* service and its row in the table, and, when a relay is configured, its
\* internal mail sent and, if it gave an email, its customer mail sent.
C3_SuccessOnlyAfterAllSteps ==
  \A r \in Reqs :
    Answered(r, 200) =>
      /\ AllUploaded(r)
      /\ HasRow(r)
      /\ transporter => Sent(r, "internal")
      /\ (transporter /\ Truthy(reqs[r].email)) => Sent(r, "customer")

C3_Witness ==
  \E r \in Reqs :
    /\ Answered(r, 200)
    /\ transporter
    /\ Truthy(reqs[r].email)
    /\ reqs[r].nfiles >= 2

\* C4: a request one of whose mails failed is answered with the 500 'Server
\* error' response, a relay being configured, and its row stays in the table
\* and is in every later admin listing.
C4_MailFailureKeepsRow ==
  \A r \in Reqs :
    MailFailed(r) =>
      /\ transporter
      /\ Len(reqs[r].res) = 1
      /\ IsServerError(reqs[r].res[1])
      /\ HasRow(r)
      /\ adminRes.status # 0 =>
           /\ adminRes.status = 200
           /\ \E i \in 1..Len(adminRes.body) : adminRes.body[i].id = reqs[r].rowId

C4_Witness ==
  /\ adminRes.status = 200
  /\ \E r \in Reqs : MailFailed(r) /\ reqs[r].mailCalls = 1
  /\ \E r \in Reqs : MailFailed(r) /\ reqs[r].mailCalls = 2

\* C5: a request whose insert failed after its uploads is answered with the 500
\* 'Server error' response, has no row (the table holds one row per insert that
\* succeeded, none with its URLs), has sent and called no mail, and its
\* assets are on the media service.
C5_InsertFailureOrphansAssets ==
  /\ Len(db) = Cardinality({q \in Reqs : reqs[q].insertCalls > 0 /\ ~InsertThrew(q)})
  /\ \A r \in Reqs :
       InsertThrew(r) =>
         /\ Len(reqs[r].res) = 1
         /\ IsServerError(reqs[r].res[1])
         /\ ~HasRow(r)
         /\ reqs[r].nfiles > 0 =>
              \A i \in 1..Len(db) :
                db[i].image_urls # JSONStringify(reqs[r].uploadedUrls)
         /\ reqs[r].mailCalls = 0
         /\ MailsSent(r) = 0
         /\ AllUploaded(r)

C5_Witness ==
  \E r \in Reqs : InsertThrew(r) /\ reqs[r].nfiles = MaxFiles /\ transporter

\* C6: the image_urls of a request's row reads back as the URLs its uploads
\* returned, one per attached file, in attachment order.
C6_ImageUrlsInAttachmentOrder ==
  \A r \in Reqs :
    \A i \in 1..Len(db) :
      db[i].id = reqs[r].rowId =>
        ParseColumn(db[i].image_urls) =
          [ok |-> TRUE,
           val |-> ArrayOfStrings([j \in 1..reqs[r].nfiles |-> Url(r, j)])]

C6_Witness == \E r \in Reqs : HasRow(r) /\ reqs[r].nfiles = FileLimit

\* C7: when the k-th upload of a request fails, its k-1 assets are on the
\* media service and it has no row and called no insert; and no step ever
\* removes an asset from the media service.
C7_NoCompensation ==
  /\ [](\A r \in Reqs :
          UploadFailed(r) =>
            /\ reqs[r].uploadCalls = Len(reqs[r].uploadedUrls) + 1
            /\ \A i \in 1..Len(reqs[r].uploadedUrls) : Url(r, i) \in remote
            /\ ~HasRow(r)
            /\ reqs[r].insertCalls = 0)
  /\ [][remote \subseteq remote']_vars

C7_Witness ==
  \E r \in Reqs :
    UploadFailed(r) /\ Len(reqs[r].uploadedUrls) >= 1 /\ Url(r, 1) \in remote

\* C8: an admin listing returns a row inserted later before a row inserted
\* earlier (ids grow in insertion order).
C8_NewestFirst ==
  adminRes.status = 200 =>
    \A i, j \in 1..Len(adminRes.body) :
      i < j => adminRes.body[i].id > adminRes.body[j].id

\* C9: an admin listing answers 200 with every row, and a field that is
\* absent or does not parse is an empty array in it.
AbsentOrMalformed(text) == ~Truthy(text) \/ ~JSONParse(text).ok

C9_MalformedYieldsEmpty ==
  adminRes.status # 0 =>
    /\ adminRes.status = 200
    /\ Len(adminRes.body) = Len(db)
    /\ \A i \in 1..Len(db) :
         \E j \in 1..Len(adminRes.body) :
           /\ adminRes.body[j].id = db[i].id
           /\ AbsentOrMalformed(db[i].product_links) =>
                adminRes.body[j].product_links = EmptyArray
           /\ AbsentOrMalformed(db[i].image_urls) =>
                adminRes.body[j].image_urls = EmptyArray

\* C10: a request that reached the handler has at most one response, exactly
\* one once the handler has ended, and it is the success response (no step
\* failed), the 400 validation error (name or contact missing or empty), or the
\* 500 'Server error' response with the message of the step that failed.
C10_OneResponse ==
  \A r \in Reqs :
    reqs[r].entered =>
      /\ Len(reqs[r].res) <= 1
      /\ reqs[r].pc = "done" <=> Len(reqs[r].res) = 1
      /\ Len(reqs[r].res) = 1 =>
           LET x == reqs[r].res[1]
               failed == UploadFailed(r) \/ InsertThrew(r) \/ MailFailed(r)
               invalid == ~Truthy(reqs[r].name) \/ ~Truthy(reqs[r].contact)
           IN  \/ x.status = 200 /\ x = Success /\ ~failed /\ ~invalid
               \/ x.status = 400 /\ x = ValidationFailure /\ invalid /\ ~failed
               \/ /\ IsServerError(x)
                  /\ x.body.details \in {"upload failed", "insert failed", "mail failed"}
                  /\ failed
                  /\ ~invalid

C10_Witness ==
  \E r \in Reqs :
    /\ reqs[r].entered
    /\ MailFailed(r)
    /\ reqs[r].mailCalls = 2
    /\ Len(reqs[r].res) = 1


\* The row of request r (there is one when HasRow(r)).
RowOf(r) == db[CHOOSE i \in 1..Len(db) : db[i].id = reqs[r].rowId]

\* C11: the customer mail is called and sent only with a relay configured and
\* a non-empty email in the request; without a relay no mail is called or
\* sent for any request, and a request whose row was inserted is answered
\* with success at once.
C11_CustomerMailOnlyWithRelayAndEmail ==
  /\ \A r \in Reqs :
       (Sent(r, "customer") \/ reqs[r].mailCalls >= 2) =>
         transporter /\ Truthy(reqs[r].email)
  /\ ~transporter =>
       /\ outbox = {}
       /\ \A r \in Reqs :
            /\ reqs[r].mailCalls = 0
            /\ HasRow(r) => reqs[r].res = <<Success>>

C11_Witness ==
  \E r \in Reqs :
    /\ ~transporter
    /\ Truthy(reqs[r].email)
    /\ reqs[r].nfiles >= 1
    /\ reqs[r].res = <<Success>>

\* A request with name and contact given and neither email, links nor images.
Bare(r) ==
  /\ reqs[r].entered
  /\ Truthy(reqs[r].name)
  /\ Truthy(reqs[r].contact)
  /\ ~Truthy(reqs[r].email)
  /\ ~Truthy(reqs[r].links)
  /\ reqs[r].nfiles = 0

\* C12: a request with name and contact and no email, links or images calls
\* no upload and no customer mail; when neither the insert nor the internal
\* mail failed it is answered with success, and its row has product_links [],
\* image_urls [] and email ''.
C12_BareSubmissionSucceeds ==
  \A r \in Reqs :
    Bare(r) =>
      /\ reqs[r].uploadCalls = 0
      /\ reqs[r].mailCalls <= 1
      /\ ~Sent(r, "customer")
      /\ reqs[r].insertCalls = 1
      /\ (reqs[r].pc = "done" /\ ~InsertThrew(r) /\ ~MailFailed(r)) =>
           reqs[r].res = <<Success>>
      /\ ~InsertThrew(r) =>
           /\ HasRow(r)
           /\ RowOf(r).name = reqs[r].name
           /\ RowOf(r).contact = reqs[r].contact
           /\ RowOf(r).email = <<>>
           /\ RowOf(r).product_links = <<"[", "]">>
           /\ RowOf(r).image_urls = <<"[", "]">>
           /\ ParseColumn(RowOf(r).product_links).val = EmptyArray
           /\ ParseColumn(RowOf(r).image_urls).val = EmptyArray

C12_Witness ==
  \E r \in Reqs :
    /\ Bare(r)
    /\ transporter
    /\ Sent(r, "internal")
    /\ reqs[r].res = <<Success>>
    /\ reqs[r].email = Undefined

\* What the claim says of a links text, read off the text by position: the
\* lines lie between consecutive newlines, a trimmed line runs from its first
\* to its last non-whitespace character, and the lines left empty are dropped.
Breaks(s) == {i \in 1..Len(s) : s[i] = "\n"}
LineStart(s, k) ==
  IF k = 1 THEN 1
  ELSE 1 + CHOOSE i \in Breaks(s) : Cardinality({j \in Breaks(s) : j <= i}) = k - 1
LineEnd(s, k) ==
  IF k = Cardinality(Breaks(s)) + 1 THEN Len(s)
  ELSE (CHOOSE i \in Breaks(s) : Cardinality({j \in Breaks(s) : j <= i}) = k) - 1
LineAt(s, k) == SubSeq(s, LineStart(s, k), LineEnd(s, k))
Inked(line) == {i \in 1..Len(line) : line[i] \notin WhiteSpace}
Trimmed(line) ==
  IF Inked(line) = {} THEN <<>>
  ELSE SubSeq(line,
              CHOOSE i \in Inked(line) : \A j \in Inked(line) : i <= j,
              CHOOSE i \in Inked(line) : \A j \in Inked(line) : i >= j)
NonEmpty(line) == line # <<>>
ExpectedLinks(links) ==
  IF links = Undefined THEN <<>>
  ELSE SelectSeq([k \in 1..(Cardinality(Breaks(links)) + 1) |->
                    Trimmed(LineAt(links, k))], NonEmpty)

\* C13: the product_links a request stores are the lines of its links text,
\* split on newlines, each trimmed, the empty ones dropped, in order; a
\* request without links text stores [].
C13_LinksSplitTrimmedFiltered ==
  \A r \in Reqs :
    /\ (reqs[r].entered /\ Truthy(reqs[r].name) /\ Truthy(reqs[r].contact)) =>
         reqs[r].linksArray = ExpectedLinks(reqs[r].links)
    /\ HasRow(r) =>
         /\ RowOf(r).product_links = JSONStringify(ExpectedLinks(reqs[r].links))
         /\ reqs[r].links = Undefined => RowOf(r).product_links = <<"[", "]">>

C13_Witness ==
  \E r \in Reqs :
    /\ HasRow(r)
    /\ reqs[r].links = <<" ", "\n", "a">>
    /\ reqs[r].linksArray = << <<"a">> >>

\* C14: the listing answers 200 and returns, for the row of every request, the
\* links and the image URLs the request gave to insert.run: same length, same
\* order, same strings.
C14_ArraysRoundTrip ==
  adminRes # NoResponse =>
    /\ adminRes.status = 200
    /\ Len(adminRes.body) = Len(db)
    /\ \A r \in Reqs :
         HasRow(r) =>
           \E j \in 1..Len(adminRes.body) :
             /\ adminRes.body[j].id = reqs[r].rowId
             /\ adminRes.body[j].product_links = ArrayOfStrings(reqs[r].linksArray)
             /\ adminRes.body[j].image_urls = ArrayOfStrings(reqs[r].uploadedUrls)

C14_Witness ==
  \E r \in Reqs :
    /\ HasRow(r)
    /\ adminRes # NoResponse
    /\ adminRes.status = 200
    /\ reqs[r].linksArray = << <<"\"">>, <<"\\">> >>
    /\ Len(reqs[r].uploadedUrls) = MaxFiles

\* The ids of the table's rows strictly increase along it.
IdsIncrease == \A i, j \in 1..Len(db) : i < j => db[i].id < db[j].id
\* The rows a request inserted.
RowsOf(r) == {i \in 1..Len(db) : reqs[r].rowId # 0 /\ db[i].id = reqs[r].rowId}

\* C15: the table only grows at its end. A request calls insert.run at most
\* once and has at most one row, exactly one when it was answered with
\* success; no two requests share a row; ids strictly increase in insertion
\* order; every step leaves the rows already there as they are (no update, no
\* delete, no change of id) and adds at most one; the listing adds none.
C15_AppendOnly ==
  /\ [](/\ IdsIncrease
        /\ \A i \in 1..Len(db) : \E r \in Reqs : i \in RowsOf(r)
        /\ \A r \in Reqs :
             /\ reqs[r].insertCalls <= 1
             /\ Cardinality(RowsOf(r)) <= reqs[r].insertCalls
             /\ Answered(r, 200) => Cardinality(RowsOf(r)) = 1
             /\ \A q \in Reqs : q # r => RowsOf(q) \cap RowsOf(r) = {})
  /\ [][/\ Len(db') \in {Len(db), Len(db) + 1}
        /\ SubSeq(db', 1, Len(db)) = db
        /\ adminRes' # NoResponse => db' = db]_vars

C15_Witness ==
  /\ Len(db) = 2
  /\ \E r \in Reqs : MailFailed(r) /\ HasRow(r)
  /\ adminRes # NoResponse
  /\ adminRes.status = 200

\* C16: the steps of a request come in the order uploads, insert, internal
\* mail, customer mail. insert.run is called only after every file uploaded;
\* the internal mail only after the row is in the table; the customer mail
\* only after the internal mail was sent; and a request whose internal mail
\* failed never calls the customer mail.
C16_StepOrder ==
  \A r \in Reqs :
    /\ reqs[r].insertCalls >= 1 =>
         /\ reqs[r].uploadCalls = reqs[r].nfiles
         /\ Len(reqs[r].uploadedUrls) = reqs[r].nfiles
    /\ reqs[r].mailCalls >= 1 => HasRow(r)
    /\ reqs[r].mailCalls >= 2 => Sent(r, "internal")
    /\ reqs[r].pc = "mailCustomer" => Sent(r, "internal")
    /\ Sent(r, "customer") => Sent(r, "internal")
    /\ (reqs[r].pc = "done" /\ reqs[r].mailCalls >= 1 /\ ~Sent(r, "internal")) =>
         /\ reqs[r].mailCalls = 1
         /\ ~Sent(r, "customer")
         /\ IsServerError(reqs[r].res[1])

C16_Witness ==
  \E r \in Reqs :
    /\ reqs[r].pc = "done"
    /\ reqs[r].mailCalls = 1
    /\ ~Sent(r, "internal")
    /\ Truthy(reqs[r].email)
    /\ reqs[r].nfiles >= 1
    /\ HasRow(r)

\* The uploads of request r that were called and have not settled.
InFlight(r) ==
  reqs[r].uploadCalls - Len(reqs[r].uploadedUrls)
    - (IF UploadFailed(r) THEN 1 ELSE 0)

\* C17: the files of a request are uploaded one after the other, in one pass.
\* The uploader is called at most once per file; the URLs come in attachment
\* order; at most one upload of a request is in flight; a call for the next
\* file is made only when every earlier call gave its URL; after a failed
\* upload the request calls the uploader no more.
C17_UploadsSequential ==
  /\ [](\A r \in Reqs :
          /\ reqs[r].uploadCalls <= reqs[r].nfiles
          /\ InFlight(r) \in {0, 1}
          /\ InFlight(r) = 1 <=> reqs[r].pc = "upload"
          /\ \A i \in 1..Len(reqs[r].uploadedUrls) :
               reqs[r].uploadedUrls[i] = Url(r, i))
  /\ [][\A r \in Reqs :
          /\ reqs'[r].uploadCalls \in {reqs[r].uploadCalls, reqs[r].uploadCalls + 1}
          /\ reqs'[r].uploadCalls = reqs[r].uploadCalls + 1 =>
               Len(reqs'[r].uploadedUrls) = reqs[r].uploadCalls
          /\ UploadFailed(r) =>
               /\ reqs'[r].uploadCalls = reqs[r].uploadCalls
               /\ reqs'[r].uploadedUrls = reqs[r].uploadedUrls]_vars

C17_Witness ==
  \E r, q \in Reqs :
    /\ UploadFailed(r)
    /\ reqs[r].nfiles = MaxFiles
    /\ Len(reqs[r].uploadedUrls) = MaxFiles - 1
    /\ q # r
    /\ reqs[q].pc = "upload"
    /\ reqs[q].uploadCalls = MaxFiles

\* C18: no row holds more than FileLimit image URLs, and a request with more
\* than FileLimit files calls no upload and no insert.run and gets no row.
C18_AtMostSixImages ==
  /\ \A i \in 1..Len(db) :
       /\ ParseColumn(db[i].image_urls).ok
       /\ ParseColumn(db[i].image_urls).val.k = "arr"
       /\ Len(ParseColumn(db[i].image_urls).val.v) <= FileLimit
  /\ \A r \in Reqs :
       reqs[r].nfiles > FileLimit =>
         /\ reqs[r].uploadCalls = 0
         /\ reqs[r].insertCalls = 0
         /\ ~HasRow(r)
         /\ ~Answered(r, 200)
         /\ \A i \in 1..reqs[r].nfiles : Url(r, i) \notin remote

C18_Witness ==
  \E r \in Reqs :
    /\ reqs[r].pc = "done"
    /\ reqs[r].nfiles = FileLimit + 1
    /\ Truthy(reqs[r].name)
    /\ Truthy(reqs[r].contact)

\* The URLs the uploads of request r give, in attachment order.
OwnUrls(r) == [i \in 1..reqs[r].nfiles |-> Url(r, i)]

\* C19: under every interleaving the row of a request holds the name, the
\* contact, the links and the image URLs of that request, the URLs in
\* attachment order and none of them from an upload of another request; and
\* a step of one request, its failure included, changes no other request's
\* locals or response, no row and no asset already there.
C19_RequestsIsolated ==
  /\ [](\A r \in Reqs :
          /\ reqs[r].pc # "idle" =>
               /\ reqs[r].name = NameOf(r)
               /\ reqs[r].contact = ContactOf(r)
               /\ reqs[r].links = LinksOf(r)
          /\ HasRow(r) =>
               LET row == RowOf(r)
                   urls == ParseColumn(row.image_urls).val
               IN  /\ row.name = NameOf(r)
                   /\ row.contact = ContactOf(r)
                   /\ ParseColumn(row.product_links).val =
                        ArrayOfStrings(ExpectedLinks(LinksOf(r)))
                   /\ urls = ArrayOfStrings(OwnUrls(r))
                   /\ \A q \in Reqs \ {r} : \A i \in 1..MaxFiles :
                        [k |-> "str", v |-> Url(q, i)] \notin
                          {urls.v[j] : j \in 1..Len(urls.v)})
  /\ [][\A r \in Reqs :
          reqs'[r] # reqs[r] =>
            /\ \A q \in Reqs \ {r} : reqs'[q] = reqs[q]
            /\ SubSeq(db', 1, Len(db)) = db
            /\ remote \subseteq remote'
            /\ outbox \subseteq outbox']_vars

C19_Witness ==
  \E r, q \in Reqs :
    /\ UploadFailed(r)
    /\ Len(reqs[r].uploadedUrls) >= 1
    /\ q # r
    /\ HasRow(q)
    /\ reqs[q].nfiles = MaxFiles
    /\ reqs[q].res = <<Success>>
    /\ RowOf(q).id = 1
====
